---- MODULE Spec2Model ----
(***************************************************************************)
(* strangely: detect frontal faces in an image and overlay a stock face    *)
(* on each of them (src/main.rs).                                          *)
(*                                                                         *)
(* Spec models one run of strangify: the detector's result, the loop over  *)
(* the detected faces and, per face, the footprint arithmetic in u32, the  *)
(* resize of the chosen overlay asset and the overlay call.                *)
(*                                                                         *)
(* MainSpec models main: the dispatch on --web-server, the local pipeline  *)
(* (resolve, strangify, save) and the web server, whose handler root runs  *)
(* on a worker thread of the runtime and blocks it while it fetches.       *)
(* FairMainSpec is MainSpec with the scheduler's weak fairness.            *)
(***************************************************************************)
EXTENDS Integers, Sequences, FiniteSets, TLC

VARIABLES
    img,             \* the image strangify mutates in place (&mut DynamicImage)
    orig,            \* the image as it was passed in
    scale,           \* the scale argument (f32)
    assets,          \* dimensions of the two embedded overlay bitmaps
    overflow_checks, \* whether the build panics on integer overflow (debug) or wraps (release)
    faces,           \* what detector.detect returned, in detection order
    pc,              \* where strangify is: "detect", "loop", "done", "panicked"
    idx,             \* how many faces the for loop has taken from the iterator
    resizeCalls,     \* calls of DynamicImage::resize so far
    overlayCalls,    \* calls of imageops::overlay so far
    placements,      \* one record per overlay call, in call order
    args,            \* the parsed command line (struct Args)
    pathState,       \* what args.path names on disk: "missing", "image", "garbage"
    mpc,             \* where main is: "main", "local", "web"
    proc,            \* the local pipeline: its position, image, names, panic
    disk,            \* the output files written by local
    reqs             \* the web server's requests: state, query, response

svars == <<img, orig, scale, faces, pc, idx, resizeCalls, overlayCalls, placements>>

mvars == <<args, pathState, mpc, proc, disk, reqs>>

vars == <<img, orig, scale, assets, overflow_checks, faces, pc, idx,
          resizeCalls, overlayCalls, placements,
          args, pathState, mpc, proc, disk, reqs>>

---------------------------------------------------------------------------
(* Bounds of the model. *)

\* Longest sequence of faces the detector returns.
MaxFaces == 2

\* Requests the web server receives.
MaxReqs == 3

\* Worker threads of the runtime that polls the handlers.
NumWorkers == 2

---------------------------------------------------------------------------
(* Numbers.  A u32 is kept as two 16-bit limbs [hi, lo], so that u32::MAX  *)
(* and the carry out of a u32 addition are exact.  A natural number that   *)
(* may exceed 32 bits is kept as three limbs [top, hi, lo].                *)

Base == 2^16

U32(n) == [hi |-> n \div Base, lo |-> n % Base]

U32_MAX == [hi |-> Base - 1, lo |-> Base - 1]

\* u32 -> integer, for values below 2^31.
AsInt(a) == a.hi * Base + a.lo

\* a + b on u32: the wrapped sum, and whether the true sum exceeds u32::MAX.
AddU32(a, b) ==
    LET lo == a.lo + b.lo
        hi == a.hi + b.hi + (lo \div Base)
    IN  [overflow |-> hi >= Base, value |-> [hi |-> hi % Base, lo |-> lo % Base]]

\* a / 2 on u32.
HalfU32(a) == [hi |-> a.hi \div 2, lo |-> (a.hi % 2) * (Base \div 2) + (a.lo \div 2)]

\* A scale is num/den * Base^shift; den is 1 when shift is 2.  The values
\* used are exact in f32 or, for DEFAULT_SCALE, truncate like the exact ratio
\* for every width below 2^16.
DEFAULT_SCALE == [num |-> 11, den |-> 20, shift |-> 0]

Scales ==
    { [num |-> 0, den |-> 1, shift |-> 0],
      [num |-> 1, den |-> 4, shift |-> 0],
      [num |-> 1, den |-> 2, shift |-> 0],
      DEFAULT_SCALE,
      [num |-> 2, den |-> 1, shift |-> 0],
      [num |-> -1, den |-> 2, shift |-> 0],
      [num |-> 1, den |-> 1, shift |-> 2] }      \* 4294967296.0

NonNegative(s) == s.num >= 0

\* trunc(n as f32 * s) for s >= 0, as a natural number of three limbs.
TruncProduct(n, s) ==
    IF s.shift = 0
    THEN LET q == (n * s.num) \div s.den
         IN  [top |-> 0, hi |-> q \div Base, lo |-> q % Base]
    ELSE [top |-> n * s.num, hi |-> 0, lo |-> 0]

\* (n as f32 * s) as u32: the cast truncates and saturates at 0 and u32::MAX.
MulAsU32(n, s) ==
    IF s.num < 0 THEN U32(0)
    ELSE LET p == TruncProduct(n, s)
         IN  IF p.top > 0 THEN U32_MAX ELSE [hi |-> p.hi, lo |-> p.lo]

---------------------------------------------------------------------------
(* Images, detections and the two library calls of the loop body.          *)

Images ==
    { [width |-> 200, height |-> 200, color |-> "rgb", layers |-> <<>>],
      [width |-> 120, height |-> 160, color |-> "rgb", layers |-> <<>>] }

\* rustface's Rectangle: x, y are i32, width, height are u32.
Regions ==
    { [x |-> 100, y |-> 100, width |-> 40, height |-> 40],
      [x |-> 2,   y |-> 3,   width |-> 21, height |-> 30],
      [x |-> 150, y |-> 10,  width |-> 0,  height |-> 0],
      [x |-> 190, y |-> 185, width |-> 20, height |-> 20] }

FaceSeqs == UNION { [1..n -> Regions] : n \in 0..MaxFaces }

\* Width and height of an embedded overlay bitmap (the files are not part of
\* the source tree, so every shape is allowed).
AssetDims ==
    { [width |-> 300, height |-> 300],
      [width |-> 300, height |-> 400],
      [width |-> 400, height |-> 200] }

\* img.to_luma8() returns a new buffer; the image itself is left as it is.
AfterLumaInPlace(image) == [image EXCEPT !.color = "luma"]

AfterLuma(image) == image

Max(a, b) == IF a >= b THEN a ELSE b

Min(a, b) == IF a <= b THEN a ELSE b

\* round(p / q) for p >= 0, q > 0 (f64::round: half away from zero).
RoundDiv(p, q) == (2 * p + q) \div (2 * q)

\* DynamicImage::resize(nwidth, nheight, filter): the result keeps the
\* asset's aspect ratio and is the largest such size that fits in
\* nwidth x nheight, each side at least 1.
Resize(asset, nwidth, nheight) ==
    IF nwidth = asset.width /\ nheight = asset.height
    THEN [width |-> asset.width, height |-> asset.height]
    ELSE IF nwidth * asset.height <= nheight * asset.width
         THEN [width  |-> Max(RoundDiv(asset.width * nwidth, asset.width), 1),
               height |-> Max(RoundDiv(asset.height * nwidth, asset.width), 1)]
         ELSE [width  |-> Max(RoundDiv(asset.width * nheight, asset.height), 1),
               height |-> Max(RoundDiv(asset.height * nheight, asset.height), 1)]

\* imageops::overlay(bottom, top, x, y): blends top onto bottom where the two
\* overlap; what lies outside bottom is clipped.  A layer is the rectangle
\* [x0, x1) x [y0, y1) of bottom that was written, and the asset written.
Overlay(bottom, top, face_id, x, y) ==
    IF \/ x > bottom.width
       \/ y > bottom.height
       \/ x + top.width <= 0
       \/ y + top.height <= 0
    THEN bottom
    ELSE LET x0 == Min(Max(x, 0), bottom.width)
             y0 == Min(Max(y, 0), bottom.height)
             x1 == Min(Max(x + top.width, 0), bottom.width)
             y1 == Min(Max(y + top.height, 0), bottom.height)
         IN  IF x1 = x0 \/ y1 = y0
             THEN bottom
             ELSE [bottom EXCEPT !.layers =
                      Append(@, [x0 |-> x0, y0 |-> y0, x1 |-> x1, y1 |-> y1,
                                 face_id |-> face_id])]

---------------------------------------------------------------------------
(* The body of the for loop of strangify.                                  *)

\* box_w_upscale, box_h_upscale and the two sums handed to resize.
Footprint(face, s) ==
    LET box_w_upscale == MulAsU32(face.width, s)
        box_h_upscale == MulAsU32(face.height, s)
        wsum == AddU32(U32(face.width), box_w_upscale)
        hsum == AddU32(U32(face.height), box_h_upscale)
    IN  [box_w_upscale |-> box_w_upscale,
         box_h_upscale |-> box_h_upscale,
         overflow |-> wsum.overflow \/ hsum.overflow,
         nwidth   |-> wsum.value,
         nheight  |-> hsum.value]

\* x_offset = box_w_upscale / 2 and y_offset = box_h_upscale / 2.
Offsets(fp) ==
    [x_offset |-> AsInt(HalfU32(fp.box_w_upscale)),
     y_offset |-> AsInt(HalfU32(fp.box_h_upscale))]

\* The record of one placement: what resize and overlay are handed, and the
\* size of the overlay that resize returns.
PlacementRecord(face, face_id, fp, off, scaled_face) ==
    [face_id |-> face_id,
     nwidth  |-> AsInt(fp.nwidth),
     nheight |-> AsInt(fp.nheight),
     x_offset |-> off.x_offset,
     y_offset |-> off.y_offset,
     width   |-> scaled_face.width,
     height  |-> scaled_face.height,
     x |-> face.x - off.x_offset,
     y |-> face.y - off.y_offset]

\* faces[face_id].resize(box_width + box_w_upscale, box_height + box_h_upscale)
\* and the position handed to overlay, for the footprint fp.
PlacementOf(face, face_id, as, fp) ==
    PlacementRecord(face, face_id, fp, Offsets(fp),
                    Resize(as[face_id], AsInt(fp.nwidth), AsInt(fp.nheight)))

\* What one iteration hands to resize and overlay (no overflow panic).
Placement(face, s, face_id, as) == PlacementOf(face, face_id, as, Footprint(face, s))

\* The overflow check of the two sums, then overlay of the resized face.
IterationOf(image, face_id, checks, fp, p) ==
    IF checks /\ fp.overflow
    THEN [panicked |-> TRUE, img |-> image]
    ELSE [panicked |-> FALSE,
          img |-> Overlay(image, [width |-> p.width, height |-> p.height],
                          face_id, p.x, p.y)]

\* One iteration of the loop on image.
Iteration(image, face, s, face_id, as, checks) ==
    IterationOf(image, face_id, checks, Footprint(face, s),
                Placement(face, s, face_id, as))

\* The iterator of detected faces is exhausted.
LoopDoneEarly(i, n) == i >= n - 1

LoopDone(i, n) == i = n

\* The face the iterator yields next.
NextFace(fs, i) == fs[i + 1]

---------------------------------------------------------------------------
(* main's data: options, paths, URLs, the command line, the request.       *)

\* Option<T>: None, or Some(x).
None == <<>>

Some(x) == <<x>>

\* A path or URL is a sequence of tokens: "/" and "." stand for themselves,
\* any other token for a run of characters with neither in it.
Paths ==
    { <<"face", ".", "jpg">>,
      <<"face">>,
      <<"nodir", "/", ".", ".">>,
      <<>> }

\* A URL and what fetching it does: "ok" serves an image, "refused" fails
\* the request, "garbage" serves bytes that are no image, "hangs" never
\* returns.
Urls ==
    { [text |-> <<"http:", "/", "/", "host", "/", "face", ".", "jpg">>, remote |-> "ok"],
      [text |-> <<"http:", "/", "/", "host", "/", ".", ".">>, remote |-> "ok"],
      [text |-> <<"http:", "/", "/", "host", "/", "face", ".", "jpg">>, remote |-> "refused"],
      [text |-> <<"http:", "/", "/", "host", "/", "face", ".", "jpg">>, remote |-> "garbage"],
      [text |-> <<"http:", "/", "/", "host", "/", "face", ".", "jpg">>, remote |-> "hangs"] }

EmptyUrl == [text |-> <<>>, remote |-> "refused"]

HugeScale == [num |-> 1, den |-> 1, shift |-> 2]

HalfScale == [num |-> 1, den |-> 2, shift |-> 0]

\* Index of the first "/" of p, or Len(p) + 1.
FirstSlash(p) ==
    IF \E i \in 1..Len(p) : p[i] = "/"
    THEN CHOOSE i \in 1..Len(p) : p[i] = "/" /\ \A j \in 1..(i - 1) : p[j] # "/"
    ELSE Len(p) + 1

\* Index of the last "." of file, or 0.
LastDot(file) ==
    IF \E i \in 1..Len(file) : file[i] = "."
    THEN CHOOSE i \in 1..Len(file) :
            file[i] = "." /\ \A j \in (i + 1)..Len(file) : file[j] # "."
    ELSE 0

\* Path::components, without the root and a leading ".": empty components and
\* "." are skipped, ".." is kept.
RECURSIVE Components(_)
Components(p) ==
    IF p = <<>> THEN <<>>
    ELSE (IF SubSeq(p, 1, FirstSlash(p) - 1) \in {<<>>, <<".">>}
          THEN <<>>
          ELSE <<SubSeq(p, 1, FirstSlash(p) - 1)>>)
         \o Components(SubSeq(p, FirstSlash(p) + 1, Len(p)))

\* Path::file_name: the last component, unless it is "..".
FileName(p) ==
    LET c == Components(p)
    IN  IF c = <<>> THEN None
        ELSE IF c[Len(c)] = <<".", ".">> THEN None
        ELSE Some(c[Len(c)])

\* std's rsplit_file_at_dot: the parts before and after the last ".".
RsplitFileAtDot(file) ==
    LET i == LastDot(file)
    IN  IF file = <<".", ".">> THEN [before |-> Some(file), after |-> None]
        ELSE IF i = 0 THEN [before |-> None, after |-> Some(file)]
        ELSE IF i = 1 THEN [before |-> Some(file), after |-> None]
        ELSE [before |-> Some(SubSeq(file, 1, i - 1)),
              after  |-> Some(SubSeq(file, i + 1, Len(file)))]

\* Path::file_stem and Path::extension.
FileStem(p) ==
    IF FileName(p) = None THEN None
    ELSE LET r == RsplitFileAtDot(FileName(p)[1])
         IN  IF r.before # None THEN r.before ELSE r.after

Extension(p) ==
    IF FileName(p) = None THEN None
    ELSE LET r == RsplitFileAtDot(FileName(p)[1])
         IN  IF r.before # None THEN r.after ELSE None

NoPanic == [msg |-> "", cause |-> ""]

\* get_filename_and_extension: panics when the path has no stem; the
\* extension defaults to "img".
GetFilenameAndExtensionLenient(path) ==
    [panic |-> NoPanic,
     stem |-> IF FileStem(path) = None THEN <<>> ELSE FileStem(path)[1],
     extension |-> IF Extension(path) = None THEN <<"img">> ELSE Extension(path)[1]]

GetFilenameAndExtension(path) ==
    IF FileStem(path) = None
    THEN [panic |-> [msg |-> "file does not have a stem", cause |-> "None"],
          stem |-> <<>>, extension |-> <<>>]
    ELSE [panic |-> NoPanic,
          stem |-> FileStem(path)[1],
          extension |-> IF Extension(path) = None THEN <<"img">> ELSE Extension(path)[1]]

\* get_filename_and_extension on every path and URL text of the model.
FilenameTable ==
    [p \in Paths \cup {u.text : u \in Urls} \cup {EmptyUrl.text} |->
        GetFilenameAndExtension(p)]

NoImage == [width |-> 0, height |-> 0, color |-> "none", layers |-> <<>>]

\* struct Args after Args::parse: clap requires one of --path, --url and
\* --web-server.  In web-server mode only the port is read.
ArgsSet ==
    { a \in [path : {None} \cup {Some(q) : q \in Paths},
             url : {None} \cup {Some(u) : u \in Urls},
             scale : {DEFAULT_SCALE, HugeScale},
             web_server : BOOLEAN] :
        /\ a.path # None \/ a.url # None \/ a.web_server
        /\ a.web_server => (a.path = None /\ a.url = None /\ a.scale = DEFAULT_SCALE) }

Reqs == 1..MaxReqs

\* The query string of a request: each of url and scale is given or not.
RawQueries ==
    { [url |-> None, scale |-> None], [url |-> None, scale |-> Some(HalfScale)] }
    \cup { [url |-> Some(u), scale |-> None] : u \in Urls }
    \cup { [url |-> Some(u), scale |-> Some(HugeScale)] :
               u \in { v \in Urls : v.remote = "ok" /\ FileStem(v.text) # None } }

\* Option<Query<RootParams>>: None unless the query deserializes, which
\* needs url.
ExtractQueryLenient(raw) ==
    Some([url |-> IF raw.url = None THEN EmptyUrl ELSE raw.url[1], scale |-> raw.scale])

ExtractQuery(raw) ==
    IF raw.url = None THEN None
    ELSE Some([url |-> raw.url[1], scale |-> raw.scale])

NoResponse == [tag |-> "none"]

Err(text) == [tag |-> "Err", text |-> text]

\* The Ok arm of root: the two headers and the encoded bytes.
OkImage(stem, bytes) ==
    [tag |-> "Ok",
     content_type |-> "image/jpeg",
     content_disposition |-> <<"attachment; filename=">> \o stem \o <<".", "jpg">>,
     body |-> bytes]

\* The Err arm of root for a request without query parameters.
NoQueryResponse == Err("No query params")

\* img.write_to(cursor, Jpeg): the bytes of the image as JPEG.
Encode(image) ==
    [format |-> "jpeg", width |-> image.width, height |-> image.height,
     layers |-> image.layers]

ProcStart ==
    [pc |-> "start", img |-> NoImage, stem |-> <<>>, extension |-> <<>>,
     panic |-> NoPanic, log |-> <<>>]

ReqNone ==
    [state |-> "none", raw |-> [url |-> None, scale |-> None],
     response |-> NoResponse, failure |-> "none", log |-> <<>>]

\* main has not started (the value of main's variables under Spec).
MainIdle ==
    /\ args = [path |-> None, url |-> None, scale |-> DEFAULT_SCALE, web_server |-> FALSE]
    /\ pathState = "missing"
    /\ mpc = "idle"
    /\ proc = ProcStart
    /\ disk = {}
    /\ reqs = [r \in Reqs |-> ReqNone]

---------------------------------------------------------------------------
(* One run of strangify.                                                   *)

Init ==
    /\ img \in Images
    /\ orig = img
    /\ scale \in Scales
    /\ assets \in [{0, 1} -> AssetDims]
    /\ overflow_checks \in BOOLEAN
    /\ faces = <<>>
    /\ pc = "detect"
    /\ idx = 0
    /\ resizeCalls = 0
    /\ overlayCalls = 0
    /\ placements = <<>>
    /\ MainIdle

\* Lines 143-156: the grayscale copy is made and the detector returns its faces.
Detect ==
    /\ pc = "detect"
    /\ \E fs \in FaceSeqs : faces' = fs
    /\ img' = AfterLuma(img)
    /\ pc' = "loop"
    /\ UNCHANGED <<orig, scale, assets, overflow_checks, idx, resizeCalls,
                   overlayCalls, placements>>
    /\ UNCHANGED mvars

\* Lines 156-178: one iteration; face_id is the coin flip of random().
LoopBody ==
    /\ pc = "loop"
    /\ ~LoopDone(idx, Len(faces))
    /\ \E face_id \in {0, 1} :
         LET face == NextFace(faces, idx)
             it == Iteration(img, face, scale, face_id, assets, overflow_checks)
         IN  IF it.panicked
             THEN /\ pc' = "panicked"
                  /\ UNCHANGED <<img, idx, resizeCalls, overlayCalls, placements>>
             ELSE /\ resizeCalls' = resizeCalls + 1
                  /\ overlayCalls' = overlayCalls + 1
                  /\ img' = it.img
                  /\ placements' = Append(placements,
                                          Placement(face, scale, face_id, assets))
                  /\ idx' = idx + 1
                  /\ pc' = "loop"
    /\ UNCHANGED <<orig, scale, assets, overflow_checks, faces>>
    /\ UNCHANGED mvars

\* The iterator is exhausted and strangify returns.
LoopExit ==
    /\ pc = "loop"
    /\ LoopDone(idx, Len(faces))
    /\ pc' = "done"
    /\ UNCHANGED <<img, orig, scale, assets, overflow_checks, faces, idx,
                   resizeCalls, overlayCalls, placements>>
    /\ UNCHANGED mvars

Next == Detect \/ LoopBody \/ LoopExit

Spec == Init /\ [][Next]_vars

---------------------------------------------------------------------------
(* main: the local pipeline and the web server.                            *)

\* strangify as one call: the loop over fs, ids being the coin flips.
RECURSIVE StrangifyLoop(_, _, _, _, _, _)

\* After the iteration it on the first face of fs: a panic ends the loop.
StrangifyRest(it, s, fs, ids, as, checks) ==
    IF it.panicked THEN it
    ELSE StrangifyLoop(it.img, s, Tail(fs), Tail(ids), as, checks)

StrangifyLoop(image, s, fs, ids, as, checks) ==
    IF fs = <<>> THEN [panicked |-> FALSE, img |-> image]
    ELSE StrangifyRest(Iteration(image, fs[1], s, ids[1], as, checks),
                       s, fs, ids, as, checks)

Strangify(image, s, fs, ids, as, checks) ==
    StrangifyLoop(AfterLuma(image), s, fs, ids, as, checks)

\* What the detector returns in the runs of main.
MainFaceSeqs == { <<>>, <<[x |-> 100, y |-> 100, width |-> 40, height |-> 40]>> }

MainAssets == (0 :> [width |-> 300, height |-> 300] @@ 1 :> [width |-> 300, height |-> 400])

MainImage == [width |-> 200, height |-> 200, color |-> "rgb", layers |-> <<>>]

UnwrapMsg == "called Result::unwrap() on an Err value"

\* The end of get_url_image: the decoded image with the stem and extension
\* fe that get_filename_and_extension returned, or its panic.
Named(fe, image) ==
    [panic |-> fe.panic,
     failure |-> IF fe.panic = NoPanic THEN "none" ELSE "stem",
     img |-> IF fe.panic = NoPanic THEN image ELSE NoImage,
     stem |-> fe.stem, extension |-> fe.extension]

\* get_url_image once the fetch has returned: the unwraps on the fetch and
\* on the decoding, then get_filename_and_extension on the URL's text.
GetUrlImage(url, image) ==
    IF url.remote = "refused"
    THEN [panic |-> [msg |-> UnwrapMsg, cause |-> "Transport"], failure |-> "fetch",
          img |-> NoImage, stem |-> <<>>, extension |-> <<>>]
    ELSE IF url.remote = "garbage"
    THEN [panic |-> [msg |-> UnwrapMsg, cause |-> "Decoding"], failure |-> "decode",
          img |-> NoImage, stem |-> <<>>, extension |-> <<>>]
    ELSE Named(FilenameTable[url.text], image)

\* image::open(path).expect("No such file or directory"), after
\* get_filename_and_extension(path) has returned fe.
Opened(fe, state, image) ==
    IF fe.panic # NoPanic
    THEN [panic |-> fe.panic, failure |-> "stem",
          img |-> NoImage, stem |-> <<>>, extension |-> <<>>]
    ELSE IF state = "image"
    THEN [panic |-> NoPanic, failure |-> "none",
          img |-> image, stem |-> fe.stem, extension |-> fe.extension]
    ELSE [panic |-> [msg |-> "No such file or directory",
                     cause |-> IF state = "missing" THEN "NotFound" ELSE "Decoding"],
          failure |-> IF state = "missing" THEN "open" ELSE "decode",
          img |-> NoImage, stem |-> <<>>, extension |-> <<>>]

\* local, lines 100-102.
OpenPath(path, state, image) == Opened(FilenameTable[path], state, image)

\* The file formats img.save derives from an extension.
KnownExtensions == { <<"png">>, <<"jpg">>, <<"jpeg">>, <<"gif">>, <<"bmp">> }

\* img.save(output_filename): the format comes from the extension, then the
\* file is created, then the image is encoded into it.  A failure of the
\* last step leaves the file that was created.
SaveOutcomes(extension) ==
    IF extension \in KnownExtensions
    THEN {"ok", "create_failed", "write_failed"}
    ELSE {"unsupported"}

\* format!("./{}_{}.{}", filename, id, extension)
OutputFilename(stem, id, extension) ==
    <<".", "/">> \o stem \o <<"_", id, ".">> \o extension

\* The end of root: the encoding of the image run.img and the response.
RootRespond(got, run, encode_ok) ==
    IF run.panicked
    THEN [state |-> "dead", response |-> NoResponse, failure |-> "strangify",
          log |-> <<"fetch", "decode", "stem">>]
    ELSE IF encode_ok
    THEN [state |-> "answered", response |-> OkImage(got.stem, Encode(run.img)),
          failure |-> "none",
          log |-> <<"fetch", "decode", "stem", "strangify", "encode">>]
    ELSE [state |-> "answered", response |-> Err("Failed to encode image"),
          failure |-> "encode",
          log |-> <<"fetch", "decode", "stem", "strangify">>]

\* root once get_url_image has ended with got: a panic ends the task
\* without a response, and otherwise strangify runs with scale s.
RootWith(got, s, fs, ids, encode_ok, as, checks) ==
    IF got.panic # NoPanic
    THEN [state |-> "dead", response |-> NoResponse, failure |-> got.failure,
          log |-> IF got.failure = "fetch" THEN <<>>
                  ELSE IF got.failure = "decode" THEN <<"fetch">>
                  ELSE <<"fetch", "decode">>]
    ELSE RootRespond(got, Strangify(got.img, s, fs, ids, as, checks), encode_ok)

\* root after the fetch has returned: the rest of get_url_image, strangify,
\* the encoding and the response.
RootAfterFetch(q, image, fs, ids, encode_ok, as, checks) ==
    RootWith(GetUrlImage(q.url, image),
             IF q.scale = None THEN DEFAULT_SCALE ELSE q.scale[1],
             fs, ids, encode_ok, as, checks)

StrangifyIdle ==
    /\ img = NoImage
    /\ orig = NoImage
    /\ scale = DEFAULT_SCALE
    /\ faces = <<>>
    /\ pc = "idle"
    /\ idx = 0
    /\ resizeCalls = 0
    /\ overlayCalls = 0
    /\ placements = <<>>

MInit ==
    /\ StrangifyIdle
    /\ assets = MainAssets
    /\ overflow_checks \in BOOLEAN
    /\ args \in ArgsSet
    /\ pathState \in {"missing", "image", "garbage"}
    /\ (args.path = None \/ FileStem(args.path[1]) = None) => pathState = "missing"
    /\ mpc = "main"
    /\ proc = ProcStart
    /\ disk = {}
    /\ reqs = [r \in Reqs |-> ReqNone]

\* main: web(args) or local(args).
MainDispatch ==
    /\ mpc = "main"
    /\ mpc' = IF args.web_server THEN "web" ELSE "local"
    /\ UNCHANGED <<args, pathState, proc, disk, reqs, assets, overflow_checks>>
    /\ UNCHANGED svars

\* local, lines 99-107: the image comes from --path, else from --url.  A
\* fetch that hangs never returns.
LocalResolve ==
    /\ mpc = "local"
    /\ proc.pc = "start"
    /\ args.path = None => args.url[1].remote # "hangs"
    /\ \E got \in { IF args.path # None
                     THEN OpenPath(args.path[1], pathState, MainImage)
                     ELSE GetUrlImage(args.url[1], MainImage) } :
          proc' = IF got.panic # NoPanic
                  THEN [proc EXCEPT !.pc = "panicked", !.panic = got.panic]
                  ELSE [proc EXCEPT !.pc = "resolved", !.img = got.img,
                                    !.stem = got.stem, !.extension = got.extension,
                                    !.log = <<"resolve">>]
    /\ UNCHANGED <<args, pathState, mpc, disk, reqs, assets, overflow_checks>>
    /\ UNCHANGED svars

\* local, line 109: strangify(&mut img, args.scale).
LocalStrangify ==
    /\ mpc = "local"
    /\ proc.pc = "resolved"
    /\ \E fs \in MainFaceSeqs :
         \E ids \in [1..Len(fs) -> {0, 1}] :
            \E run \in {Strangify(proc.img, args.scale, fs, ids, assets,
                                  overflow_checks)} :
               proc' = IF run.panicked
                       THEN [proc EXCEPT !.pc = "panicked",
                                !.panic = [msg |-> "attempt to add with overflow",
                                           cause |-> ""]]
                       ELSE [proc EXCEPT !.pc = "strangified", !.img = run.img,
                                         !.log = Append(@, "strangify")]
    /\ UNCHANGED <<args, pathState, mpc, disk, reqs, assets, overflow_checks>>
    /\ UNCHANGED svars

\* local, lines 111-115: the output name and img.save(...).unwrap().
LocalSave ==
    /\ mpc = "local"
    /\ proc.pc = "strangified"
    /\ \E outcome \in SaveOutcomes(proc.extension) :
         LET name == OutputFilename(proc.stem, "uuid", proc.extension)
         IN  /\ proc' = IF outcome = "ok"
                        THEN [proc EXCEPT !.pc = "saved", !.log = Append(@, "save")]
                        ELSE [proc EXCEPT !.pc = "panicked",
                                 !.panic = [msg |-> UnwrapMsg, cause |-> outcome]]
             /\ disk' = IF outcome = "ok"
                        THEN disk \cup {[name |-> name, complete |-> TRUE]}
                        ELSE IF outcome = "write_failed"
                        THEN disk \cup {[name |-> name, complete |-> FALSE]}
                        ELSE disk
    /\ UNCHANGED <<args, pathState, mpc, reqs, assets, overflow_checks>>
    /\ UNCHANGED svars

\* The worker threads that are inside a handler.
Busy == { r \in Reqs : reqs[r].state = "fetching" }

\* The server accepts a connection and spawns the task of request r.
Arrive(r) ==
    /\ mpc = "web"
    /\ reqs[r].state = "none"
    /\ r > 1 => reqs[r - 1].state # "none"
    /\ \E raw \in RawQueries :
         reqs' = [reqs EXCEPT ![r] = [@ EXCEPT !.state = "queued", !.raw = raw]]
    /\ UNCHANGED <<args, pathState, mpc, proc, disk, assets, overflow_checks>>
    /\ UNCHANGED svars

\* A free worker thread polls the task of r: root answers a request without
\* query at once, and otherwise enters get_url_image, whose fetch blocks the
\* thread until it returns.
Poll(r) ==
    /\ mpc = "web"
    /\ reqs[r].state = "queued"
    /\ Cardinality(Busy) < NumWorkers
    /\ reqs' = [reqs EXCEPT ![r] =
                  IF ExtractQuery(@.raw) = None
                  THEN [@ EXCEPT !.state = "answered", !.response = NoQueryResponse,
                                 !.failure = "query"]
                  ELSE [@ EXCEPT !.state = "fetching"]]
    /\ UNCHANGED <<args, pathState, mpc, proc, disk, assets, overflow_checks>>
    /\ UNCHANGED svars

\* The query of request r, which has one.
QueryOf(r) == ExtractQuery(reqs[r].raw)[1]

\* The fetch of r returns and root runs to its end on the same thread; the
\* detector's result, the coin flips and the outcome of the encoding vary.
FetchReturn(r) ==
    /\ mpc = "web"
    /\ reqs[r].state = "fetching"
    /\ QueryOf(r).url.remote # "hangs"
    /\ \E fs \in MainFaceSeqs :
         \E ids \in [1..Len(fs) -> {0, 1}] :
            \E encode_ok \in BOOLEAN :
               \E end \in {RootAfterFetch(QueryOf(r), MainImage, fs, ids, encode_ok,
                                          assets, overflow_checks)} :
                  reqs' = [reqs EXCEPT ![r] =
                             [@ EXCEPT !.state = end.state,
                                       !.response = end.response,
                                       !.failure = end.failure,
                                       !.log = end.log]]
    /\ UNCHANGED <<args, pathState, mpc, proc, disk, assets, overflow_checks>>
    /\ UNCHANGED svars

MNext ==
    \/ MainDispatch
    \/ LocalResolve
    \/ LocalStrangify
    \/ LocalSave
    \/ \E r \in Reqs : Arrive(r)
    \/ \E r \in Reqs : Poll(r)
    \/ \E r \in Reqs : FetchReturn(r)

MainSpec == MInit /\ [][MNext]_vars

\* The runtime polls a task that stays ready, and a call that can return
\* returns.
FairMainSpec ==
    /\ MainSpec
    /\ WF_vars(MainDispatch)
    /\ \A r \in Reqs : WF_vars(Arrive(r))
    /\ \A r \in Reqs : WF_vars(Poll(r))
    /\ \A r \in Reqs : WF_vars(FetchReturn(r))

---------------------------------------------------------------------------
(* Properties of strangify, checked under Spec.                            *)

\* A natural number below 2^31 as three limbs.
Wide(n) == [top |-> 0, hi |-> n \div Base, lo |-> n % Base]

\* n + t for a three-limb natural t, exact.
WideAdd(n, t) ==
    LET lo == t.lo + n
        hi == t.hi + (lo \div Base)
    IN  [top |-> t.top + (hi \div Base), hi |-> hi % Base, lo |-> lo % Base]

\* C1: when the detector returns no face, strangify calls neither resize nor
\* overlay and the image is left exactly as it was passed in.
C1_NoFacesNoChange ==
    (pc # "detect" /\ Len(faces) = 0) =>
        /\ resizeCalls = 0
        /\ overlayCalls = 0
        /\ placements = <<>>
        /\ img = orig
        /\ pc # "panicked"

C1_Witness == pc = "done" /\ faces = <<>> /\ img = orig

\* C2: the loop makes one resize call and one overlay call per detected
\* face, in detection order: the counts equal the number of faces taken so
\* far, they equal the number of faces once the loop has ended, and the i-th
\* placement is the one computed from the i-th face alone.
C2_OnePlacementPerRegion ==
    /\ resizeCalls = idx
    /\ overlayCalls = idx
    /\ Len(placements) = idx
    /\ idx <= Len(faces)
    /\ pc = "done" => idx = Len(faces)
    /\ \A i \in 1..Len(placements) :
         \E face_id \in {0, 1} :
            placements[i] = Placement(faces[i], scale, face_id, assets)

C2_Witness ==
    /\ pc = "done"
    /\ Len(faces) >= 2
    /\ faces[1] # faces[2]
    /\ overlayCalls = Len(faces)

\* C3: for every face (x, y, w, h) and scale s >= 0 the footprint handed to
\* resize is w + trunc(w*s) by h + trunc(h*s), the offset is half of what the
\* footprint adds to the box, and the overlay is drawn at (x - offset_x,
\* y - offset_y); the face (100,100,40,40) at s = 0.5 gives (60,60), (10,10)
\* and (90,90).
C3_FootprintOffsetPosition ==
    NonNegative(scale) =>
        \A i \in 1..Len(placements) :
            LET p == placements[i]
                f == faces[i]
            IN  /\ Wide(p.nwidth) = WideAdd(f.width, TruncProduct(f.width, scale))
                /\ Wide(p.nheight) = WideAdd(f.height, TruncProduct(f.height, scale))
                /\ p.x_offset = (p.nwidth - f.width) \div 2
                /\ p.y_offset = (p.nheight - f.height) \div 2
                /\ p.x = f.x - p.x_offset
                /\ p.y = f.y - p.y_offset
                /\ (/\ f = [x |-> 100, y |-> 100, width |-> 40, height |-> 40]
                    /\ scale = [num |-> 1, den |-> 2, shift |-> 0])
                   => /\ p.nwidth = 60 /\ p.nheight = 60
                      /\ p.x_offset = 10 /\ p.y_offset = 10
                      /\ p.x = 90 /\ p.y = 90

\* C4: for every non-negative scale the footprint handed to resize is at
\* least as wide and as high as the detected box.
C4_FootprintNotSmaller ==
    NonNegative(scale) =>
        \A i \in 1..Len(placements) :
            /\ placements[i].nwidth >= faces[i].width
            /\ placements[i].nheight >= faces[i].height

\* C10: for every non-negative scale the overlay that is drawn has exactly
\* the footprint's width and height, whatever the asset's own size, and its
\* centre is within one pixel of the centre of the detected box.
C10_DrawnOverlayCentered ==
    NonNegative(scale) =>
        \A i \in 1..Len(placements) :
            LET p == placements[i]
                f == faces[i]
                dx == f.x - p.x
                dy == f.y - p.y
            IN  /\ p.width = p.nwidth
                /\ p.height = p.nheight
                /\ dx >= (p.width - f.width - 1) \div 2
                /\ dx <= (p.width - f.width + 2) \div 2
                /\ dy >= (p.height - f.height - 1) \div 2
                /\ dy <= (p.height - f.height + 2) \div 2

---------------------------------------------------------------------------
(* Properties of main, checked under MainSpec and FairMainSpec.            *)

AllStages == <<"fetch", "decode", "stem", "strangify", "encode">>

\* C5: every request whose handling failed (fetch, decoding, missing stem,
\* strangify, encoding) is answered with an error response.
C5_FailuresAnswered ==
    \A r \in Reqs :
        reqs[r].failure # "none" =>
            /\ reqs[r].state = "answered"
            /\ reqs[r].response.tag = "Err"

MissingPathResolved ==
    /\ mpc = "local"
    /\ args.path # None
    /\ pathState = "missing"
    /\ proc.pc # "start"

C8_AllOrNothing ==
    /\ \A f \in disk :
         /\ f.complete
         /\ proc.pc = "saved"
         /\ proc.log = <<"resolve", "strangify", "save">>
    /\ proc.pc = "panicked" => disk = {}
    /\ \A r \in Reqs :
         /\ reqs[r].response.tag = "Ok" =>
              (reqs[r].failure = "none" /\ reqs[r].log = AllStages)
         /\ reqs[r].failure # "none" => reqs[r].response.tag # "Ok"

\* The fetch of request r, if it has one, returns.
Completes(r) ==
    reqs[r].raw.url = None \/ reqs[r].raw.url[1].remote # "hangs"

\* C9: whatever number of requests hang in their fetch, every request whose
\* own fetch returns is eventually handled to its end.
C9_OthersEventuallyHandled ==
    \A r \in Reqs :
        (reqs[r].state = "queued" /\ Completes(r))
            ~> (reqs[r].state \in {"answered", "dead"})

====
